---------------------------- MODULE Spec2Model ----------------------------
(***************************************************************************)
(* Model of PlayerClientService (player-client.service.ts as kept in       *)
(* src/.../lib/datatable-ref.ts, lines 987-2084): getClient(), the         *)
(* host-dependent public methods built on it, the NoopClient fallback,     *)
(* the event bridge (the DOM events, window.RevelDigital.Controller and    *)
(* the postMessage pipeline feeding the public channels) and ngOnDestroy.  *)
(*                                                                         *)
(* JavaScript values are modelled as pairs <<tag, text>> of strings, a     *)
(* promise as a record with a state and a value, and the browser's         *)
(* microtask queue as a FIFO of continuations of the pending calls.  A      *)
(* postMessage payload is a record telling whether it is a string and what *)
(* its text denotes; every emission of the bridge is an entry of one       *)
(* ordered log.                                                            *)
(***************************************************************************)
EXTENDS Naturals, Sequences, FiniteSets

(* ------------------------------ bounds --------------------------------- *)

\* number of calls to public methods of the service in one behaviour
MaxCalls == 2
\* number of calls in a behaviour of the specification with fairness
MaxFairCalls == 1
\* number of distinct host objects the page may install as window.Client
MaxHosts == 2
\* number of messages posted to the window in one behaviour
MaxMessages == 2
\* number of DOM events and Controller calls in one behaviour
MaxSignals == 2
\* number of subscribers the application attaches to the public channels
MaxSubscribers == 1
\* number of calls in a behaviour that follows the calls' arguments
MaxArgCalls == 1
\* number of row events the data table library fires in one behaviour
MaxRowEvents == 3

(* --------------------------- JavaScript values ------------------------- *)

Null       == <<"null", "null">>
Undefined  == <<"undefined", "undefined">>
True       == <<"bool", "true">>
False      == <<"bool", "false">>
Str(s)     == <<"str", s>>
Num(s)     == <<"num", s>>
Obj(s)     == <<"obj", s>>
Err(s)     == <<"err", s>>
NoValue    == <<"none", "none">>

\* new Date().toISOString() of NoopClient.getDeviceTime
IsoNow     == Str("2026-11-04T00:00:00.000Z")
\* the error objects the JavaScript runtime raises
SyntaxError == Err("SyntaxError")
TypeError   == Err("TypeError")
\* an error object owned by the host
HostError   == Err("HostError")

\* texts that JSON.parse accepts as an object literal
JsonObjectTexts == {"{}", "{\"name\":\"d1\",\"key\":\"k1\"}"}

\* the values a host method may resolve to (the host object is loosely typed)
HostValues == {Null, Str("abc"), Str("{}"), Num("42")}

\* JSON.parse(v): v is first coerced to a string
JSONParse(v) ==
  IF v = Null THEN [ok |-> TRUE, val |-> Null]
  ELSE IF v[1] = "num" THEN [ok |-> TRUE, val |-> v]
  ELSE IF v[1] = "bool" THEN [ok |-> TRUE, val |-> v]
  ELSE IF v[1] = "str" /\ v[2] = "null" THEN [ok |-> TRUE, val |-> Null]
  ELSE IF v[1] = "str" /\ v[2] \in JsonObjectTexts THEN [ok |-> TRUE, val |-> Obj(v[2])]
  ELSE [ok |-> FALSE, val |-> SyntaxError]

(* ------------------------------ instances ------------------------------ *)

NoClient   == 0
NoPromise  == 0
NoInstance == [kind |-> "none", id |-> 0]
Live(h)    == [kind |-> "live", id |-> h]
Noop(n)    == [kind |-> "noop", id |-> n]

Pending        == [state |-> "pending", value |-> NoInstance]
Fulfilled(i)   == [state |-> "fulfilled", value |-> i]

(* ------------------------------- methods ------------------------------- *)

PassThroughGetters ==
  {"getDeviceTimeZoneName", "getDeviceTimeZoneID", "getDeviceTimeZoneOffset",
   "getLanguageCode", "getDeviceKey", "getRevelRoot",
   "getWidth", "getHeight", "getDuration"}
Getters  == PassThroughGetters \cup {"getDeviceTime", "getCommandMap", "getDevice"}
Commands == {"callback", "sendCommand", "sendRemoteCommand", "track",
             "timeEvent", "newEventSession", "finish"}
Methods  == Getters \cup Commands \cup {"isPreviewMode"}

VARIABLES
  windowClient,   \* window.Client: NoClient or the id of the host object
  readyState,     \* document.readyState
  loadFired,      \* the window's load event has been dispatched
  clientPromise,  \* this.clientPromise: NoPromise (null) or an index of promises
  promises,       \* the promises created by getClient, in creation order
  loadListeners,  \* the handleWindowLoad closures registered on window, each
                  \*   holding the resolve function of one promise
  noopCount,      \* number of NoopClient objects constructed (one log entry each)
  waiting,        \* continuations of calls awaiting a pending promise, in call order
  jobs,           \* the microtask queue: continuations whose promise is fulfilled
  served,         \* for each completed call, in completion order: the instance
                  \*   its continuation received, whether it awaited a pending
                  \*   promise, and its place among the calls as they were issued
  last,           \* the most recently completed call as its caller observes it
  ready,          \* last value of onReady$
  subsClosed,     \* the four source subscriptions have been unsubscribed
  hasParent,      \* the window is embedded: window.parent is another window
                  \*   (in a top-level window, window.parent is the window itself)
  inbox,          \* messages posted to the window whose message event is still
                  \*   to be dispatched, in posting order
  msgErrored,     \* the subscription to onPostMessageEvt$ was closed by an error
  handled,        \* the inbound events dispatched so far (message events, DOM
                  \*   events, Controller calls), in order
  out,            \* what the bridge did so far, in order: emissions on the public
                  \*   channels, messages posted to window.parent, errors reported
                  \*   as unhandled
  subscribers,    \* the application's subscribers, each with what it received
  hasOpener,      \* the window was opened by another window: window.opener is set
  zone,           \* for each emission a host signal caused, in order: its channel
                  \*   and whether the bridge published it inside zone.run
  args,           \* of the most recently completed call: the arguments the caller
                  \*   gave and those the bound implementation's method received
  table           \* a DataTableRef and the library instance under it: the events
                  \*   with a listener registered, the streams completed, what
                  \*   the three streams emitted

vars == <<windowClient, readyState, loadFired, clientPromise, promises,
          loadListeners, noopCount, waiting, jobs, served, last,
          ready, subsClosed, hasParent, inbox, msgErrored, handled, out,
          subscribers, hasOpener, zone, args, table>>

envVars      == <<windowClient, readyState, loadFired>>
bridgeVars   == <<ready, subsClosed>>
resolverVars == <<clientPromise, promises, loadListeners, noopCount>>
callVars     == <<waiting, jobs, served, last>>
channelVars  == <<hasParent, inbox, msgErrored, handled, out, subscribers,
                   hasOpener, zone, args, table>>

NoCall == [method |-> "none", client |-> NoInstance, outcome |-> [k |-> "none", v |-> NoValue],
           invoked |-> 0, result |-> [k |-> "none", v |-> NoValue],
           unhandled |-> NoValue]

\* no call has completed: no arguments given, none received
NoArgs == [given |-> <<>>, passed |-> <<>>]

\* no DataTableRef has been created
NoTable == [kind |-> "none", listeners |-> {}, completed |-> {}, disposed |-> FALSE,
            instanceDisposed |-> FALSE, events |-> <<>>, emitted |-> <<>>]

\* number of calls made so far
NumCalls == Len(waiting) + Len(jobs) + Len(served)

(* ---------------------------- the constructor -------------------------- *)

\* the fields of the service after new PlayerClientService(zone): no
\* resolution has begun, the four source subscriptions are open, onReady$
\* holds true, nothing was received or emitted yet
InitService ==
  /\ clientPromise = NoPromise
  /\ promises = <<>>
  /\ loadListeners = <<>>
  /\ noopCount = 0
  /\ waiting = <<>>
  /\ jobs = <<>>
  /\ served = <<>>
  /\ last = NoCall
  /\ ready = TRUE
  /\ subsClosed = FALSE
  /\ msgErrored = FALSE
  /\ inbox = <<>>
  /\ handled = <<>>
  /\ out = <<>>
  /\ subscribers = <<>>
  /\ zone = <<>>
  /\ args = NoArgs

\* the state after construction in a gadget embedded in a frame; the page
\* may be at any stage of loading and the host script may or may not have run
Init ==
  /\ windowClient \in 0..MaxHosts
  /\ readyState \in {"loading", "interactive", "complete"}
  /\ loadFired \in BOOLEAN
  /\ loadFired => readyState = "complete"
  /\ hasParent = TRUE
  /\ hasOpener = FALSE
  /\ table = NoTable
  /\ InitService

(* ------------------------------ getClient ------------------------------ *)

\* getClient() without the test of this.clientPromise: every call resolves anew
getClientNoMemo ==
  IF windowClient # NoClient THEN
    [clientPromise |-> Len(promises) + 1,
     promises |-> Append(promises, Fulfilled(Live(windowClient))),
     loadListeners |-> loadListeners, noopCount |-> noopCount]
  ELSE IF readyState = "complete" THEN
    [clientPromise |-> Len(promises) + 1,
     promises |-> Append(promises, Fulfilled(Noop(noopCount + 1))),
     loadListeners |-> loadListeners, noopCount |-> noopCount + 1]
  ELSE
    [clientPromise |-> Len(promises) + 1,
     promises |-> Append(promises, Pending),
     loadListeners |-> Append(loadListeners, Len(promises) + 1),
     noopCount |-> noopCount]

\* getClient() that gives up a cached fallback once window.Client has appeared
getClientUpgrades ==
  IF clientPromise # NoPromise
     /\ ~(promises[clientPromise].value.kind = "noop" /\ windowClient # NoClient) THEN
    [clientPromise |-> clientPromise, promises |-> promises,
     loadListeners |-> loadListeners, noopCount |-> noopCount]
  ELSE IF windowClient # NoClient THEN
    [clientPromise |-> Len(promises) + 1,
     promises |-> Append(promises, Fulfilled(Live(windowClient))),
     loadListeners |-> loadListeners, noopCount |-> noopCount]
  ELSE IF readyState = "complete" THEN
    [clientPromise |-> Len(promises) + 1,
     promises |-> Append(promises, Fulfilled(Noop(noopCount + 1))),
     loadListeners |-> loadListeners, noopCount |-> noopCount + 1]
  ELSE
    [clientPromise |-> Len(promises) + 1,
     promises |-> Append(promises, Pending),
     loadListeners |-> Append(loadListeners, Len(promises) + 1),
     noopCount |-> noopCount]

\* getClient() that looks at window.Client only once the document is complete
getClientLoadFirst ==
  IF clientPromise # NoPromise THEN
    [clientPromise |-> clientPromise, promises |-> promises,
     loadListeners |-> loadListeners, noopCount |-> noopCount]
  ELSE IF readyState # "complete" THEN
    [clientPromise |-> Len(promises) + 1,
     promises |-> Append(promises, Pending),
     loadListeners |-> Append(loadListeners, Len(promises) + 1),
     noopCount |-> noopCount]
  ELSE IF windowClient # NoClient THEN
    [clientPromise |-> Len(promises) + 1,
     promises |-> Append(promises, Fulfilled(Live(windowClient))),
     loadListeners |-> loadListeners, noopCount |-> noopCount]
  ELSE
    [clientPromise |-> Len(promises) + 1,
     promises |-> Append(promises, Fulfilled(Noop(noopCount + 1))),
     loadListeners |-> loadListeners, noopCount |-> noopCount + 1]

\* getClient() without the test of document.readyState: it always waits for load
getClientAlwaysListens ==
  IF clientPromise # NoPromise THEN
    [clientPromise |-> clientPromise, promises |-> promises,
     loadListeners |-> loadListeners, noopCount |-> noopCount]
  ELSE IF windowClient # NoClient THEN
    [clientPromise |-> Len(promises) + 1,
     promises |-> Append(promises, Fulfilled(Live(windowClient))),
     loadListeners |-> loadListeners, noopCount |-> noopCount]
  ELSE
    [clientPromise |-> Len(promises) + 1,
     promises |-> Append(promises, Pending),
     loadListeners |-> Append(loadListeners, Len(promises) + 1),
     noopCount |-> noopCount]

\* getClient(): the values of the resolver's fields after the call; the
\* promise returned is promises[clientPromise]
getClient ==
  IF clientPromise # NoPromise THEN
    [clientPromise |-> clientPromise, promises |-> promises,
     loadListeners |-> loadListeners, noopCount |-> noopCount]
  ELSE IF windowClient # NoClient THEN
    [clientPromise |-> Len(promises) + 1,
     promises |-> Append(promises, Fulfilled(Live(windowClient))),
     loadListeners |-> loadListeners, noopCount |-> noopCount]
  ELSE IF readyState = "complete" THEN
    [clientPromise |-> Len(promises) + 1,
     promises |-> Append(promises, Fulfilled(Noop(noopCount + 1))),
     loadListeners |-> loadListeners, noopCount |-> noopCount + 1]
  ELSE
    [clientPromise |-> Len(promises) + 1,
     promises |-> Append(promises, Pending),
     loadListeners |-> Append(loadListeners, Len(promises) + 1),
     noopCount |-> noopCount]

(* ----------------------- the bound implementation ---------------------- *)

Value(v)  == [k |-> "value", v |-> v]     \* returned v, or a promise fulfilled with v
Reject(e) == [k |-> "reject", v |-> e]    \* returned a promise rejected with e
Throw(e)  == [k |-> "throw", v |-> e]     \* threw e
NoOutcome == [k |-> "none", v |-> NoValue]

\* the version constant of the library, imported from ./version
SdkVersion == Str("version")

\* a NoopClient whose getCommandMap resolves null like the other getters
NoopClientNullMap(m) ==
  IF m = "getDeviceTime" THEN Value(IsoNow)
  ELSE IF m = "getSdkVersion" THEN Value(SdkVersion)
  ELSE IF m \in Getters THEN Value(Null)
  ELSE Value(Undefined)

\* a NoopClient whose command and telemetry methods throw
NoopClientThrows(m) ==
  IF m = "getDeviceTime" THEN Value(IsoNow)
  ELSE IF m = "getCommandMap" THEN Value(Str("{}"))
  ELSE IF m = "getSdkVersion" THEN Value(SdkVersion)
  ELSE IF m \in Getters THEN Value(Null)
  ELSE Throw(TypeError)

\* what the NoopClient's method m does
NoopClient(m) ==
  IF m = "getDeviceTime" THEN Value(IsoNow)
  ELSE IF m = "getCommandMap" THEN Value(Str("{}"))
  ELSE IF m = "getSdkVersion" THEN Value(SdkVersion)
  ELSE IF m \in Getters THEN Value(Null)
  ELSE Value(Undefined)

\* what a host object's method m may do: the host contract is consumed, not
\* implemented here, so every outcome is possible
HostOutcomes(m) ==
  IF m \in Getters
    THEN {Value(v) : v \in HostValues} \cup {Reject(HostError), Throw(HostError)}
    ELSE {Value(Undefined), Reject(HostError), Throw(HostError)}

\* the outcomes of invoking method m of the instance client
Invoke(client, m) ==
  IF client.kind = "noop" THEN {NoopClient(m)} ELSE HostOutcomes(m)

(* ------------------- the public methods' continuations ----------------- *)

Resolved(v) == [k |-> "resolved", v |-> v]   \* the promise the caller holds is fulfilled
Rejected(e) == [k |-> "rejected", v |-> e]   \* the promise the caller holds is rejected
Returned    == [k |-> "returned", v |-> Undefined]  \* a void method: nothing to settle

Done(m, client, o, n, r, u) ==
  [method |-> m, client |-> client, outcome |-> o, invoked |-> n,
   result |-> r, unhandled |-> u]

\* [obj].map(device => ({name: device.name, ...}))[0] of getDevice
MapDevice(obj) == <<"IDevice", obj[2]>>

\* a pass-through getter that catches the host's failure and resolves to null
PassThroughSwallow(m, client, o) ==
  Done(m, client, o, 1,
       IF o.k = "value" THEN Resolved(o.v) ELSE Resolved(Null), NoValue)

\* a pass-through getter that parses the host's value as getCommandMap does
PassThroughParsed(m, client, o) ==
  Done(m, client, o, 1,
       IF o.k = "value"
         THEN IF JSONParse(o.v).ok THEN Resolved(JSONParse(o.v).val)
                                   ELSE Rejected(SyntaxError)
         ELSE Rejected(o.v),
       NoValue)

\* const client = await this.getClient(); return client.m();
PassThrough(m, client, o) ==
  Done(m, client, o, 1,
       IF o.k = "value" THEN Resolved(o.v) ELSE Rejected(o.v), NoValue)

\* return JSON.parse(await client.getCommandMap());
getCommandMap(client, o) ==
  Done("getCommandMap", client, o, 1,
       IF o.k = "value"
         THEN IF JSONParse(o.v).ok THEN Resolved(JSONParse(o.v).val)
                                   ELSE Rejected(SyntaxError)
         ELSE Rejected(o.v),
       NoValue)

\* JSON.parse(await client.getDevice()) mapped to an IDevice
getDevice(client, o) ==
  Done("getDevice", client, o, 1,
       IF o.k = "value"
         THEN IF ~JSONParse(o.v).ok THEN Rejected(SyntaxError)
              ELSE IF JSONParse(o.v).val = Null THEN Rejected(TypeError)
              ELSE Resolved(MapDevice(JSONParse(o.v).val))
         ELSE Rejected(o.v),
       NoValue)

\* isPreviewMode() with the test turned round
isPreviewModeInverted(client) ==
  Done("isPreviewMode", client, NoOutcome, 0,
       Resolved(IF client.kind = "noop" THEN False ELSE True), NoValue)

\* return client instanceof NoopClient;
isPreviewMode(client) ==
  Done("isPreviewMode", client, NoOutcome, 0,
       Resolved(IF client.kind = "noop" THEN True ELSE False), NoValue)

\* this.getClient().then((client) => { client.m(...); }): the method has
\* returned undefined already; an exception of client.m rejects the promise
\* that then() returned, which nothing holds
Command(m, client, o) ==
  Done(m, client, o, 1, Returned, IF o.k = "throw" THEN o.v ELSE NoValue)

\* the continuation of a call of method m, run with the resolved instance
Continue(m, client, o) ==
  IF m = "isPreviewMode" THEN isPreviewMode(client)
  ELSE IF m = "getCommandMap" THEN getCommandMap(client, o)
  ELSE IF m = "getDevice" THEN getDevice(client, o)
  ELSE IF m \in Getters THEN PassThrough(m, client, o)
  ELSE Command(m, client, o)

(* ------------------------------- actions ------------------------------- *)

\* A caller invokes a host-dependent public method.  Each of them starts
\* with this.getClient() and suspends on the promise it returns (by await or
\* by then()); nothing reads the method's name or arguments before the
\* continuation runs, so the continuation is kept as the promise it waits
\* for and the method is drawn where it first matters, in RunJob.
CallUpTo(n) ==
  /\ NumCalls < n
  /\ LET g == getClient
         c == [promise |-> g.clientPromise,
               early |-> g.promises[g.clientPromise].state = "pending",
               seq |-> NumCalls + 1]
     IN /\ clientPromise' = g.clientPromise
        /\ promises' = g.promises
        /\ loadListeners' = g.loadListeners
        /\ noopCount' = g.noopCount
        /\ IF c.early
             THEN waiting' = Append(waiting, c) /\ jobs' = jobs
             ELSE jobs' = Append(jobs, c) /\ waiting' = waiting
  /\ UNCHANGED <<envVars, bridgeVars, channelVars, served, last>>

\* the microtask at the head of the queue runs: the continuation of a call
\* of method m receives the resolved instance and uses it
RunJob(m) ==
  /\ jobs # <<>>
  /\ LET c == Head(jobs)
         client == promises[c.promise].value
     IN \E o \in (IF m = "isPreviewMode" THEN {NoOutcome} ELSE Invoke(client, m)) :
          /\ last' = Continue(m, client, o)
          /\ served' = Append(served, [client |-> client, early |-> c.early,
                               seq |-> c.seq])
  /\ jobs' = Tail(jobs)
  /\ UNCHANGED <<envVars, bridgeVars, channelVars, resolverVars, waiting>>

\* handleWindowLoad that never looks at window.Client: resolve(new NoopClient())
handleWindowLoadNoopOnly(st, p) ==
  [promises |-> IF st.promises[p].state = "pending"
                  THEN [st.promises EXCEPT ![p] = Fulfilled(Noop(st.noopCount + 1))]
                  ELSE st.promises,
   noopCount |-> st.noopCount + 1]

\* handleWindowLoad without the fallback: if (window.Client) resolve(window.Client)
handleWindowLoadLiveOnly(st, p) ==
  [promises |-> IF st.promises[p].state = "pending" /\ windowClient # NoClient
                  THEN [st.promises EXCEPT ![p] = Fulfilled(Live(windowClient))]
                  ELSE st.promises,
   noopCount |-> st.noopCount]

\* handleWindowLoad of the promise p: resolve(window.Client || new NoopClient())
\* applied to st = [promises, noopCount]; resolving a settled promise does nothing
handleWindowLoad(st, p) ==
  LET n == IF windowClient # NoClient THEN st.noopCount ELSE st.noopCount + 1
      i == IF windowClient # NoClient THEN Live(windowClient) ELSE Noop(n)
  IN [promises |-> IF st.promises[p].state = "pending"
                     THEN [st.promises EXCEPT ![p] = Fulfilled(i)]
                     ELSE st.promises,
      noopCount |-> n]

RECURSIVE DispatchLoad(_, _)
\* the load event's listeners run in registration order
DispatchLoad(st, ls) ==
  IF ls = <<>> THEN st ELSE DispatchLoad(handleWindowLoad(st, Head(ls)), Tail(ls))

\* the continuations in ws whose promise is fulfilled in ps, in order
RECURSIVE Woken(_, _)
Woken(ws, ps) ==
  IF ws = <<>> THEN <<>>
  ELSE IF ps[Head(ws).promise].state = "fulfilled"
         THEN <<Head(ws)>> \o Woken(Tail(ws), ps)
         ELSE Woken(Tail(ws), ps)

RECURSIVE Asleep(_, _)
Asleep(ws, ps) ==
  IF ws = <<>> THEN <<>>
  ELSE IF ps[Head(ws).promise].state = "fulfilled"
         THEN Asleep(Tail(ws), ps)
         ELSE <<Head(ws)>> \o Asleep(Tail(ws), ps)

\* the browser fires the window's load event (once, after readyState has
\* become "complete", as a task of its own: no microtask is left)
WindowLoad ==
  /\ readyState = "complete"
  /\ ~loadFired
  /\ jobs = <<>>
  /\ loadFired' = TRUE
  /\ LET st == DispatchLoad([promises |-> promises, noopCount |-> noopCount],
                            loadListeners)
     IN /\ promises' = st.promises
        /\ noopCount' = st.noopCount
        /\ jobs' = Woken(waiting, st.promises)
        /\ waiting' = Asleep(waiting, st.promises)
  /\ UNCHANGED <<windowClient, readyState, clientPromise, loadListeners,
                 served, last, bridgeVars, channelVars>>

\* the document moves on: loading -> interactive -> complete
ReadyStateChange ==
  /\ readyState # "complete"
  /\ jobs = <<>>
  /\ readyState' = IF readyState = "loading" THEN "interactive" ELSE "complete"
  /\ UNCHANGED <<windowClient, loadFired, resolverVars, callVars, bridgeVars, channelVars>>

\* a script of the page sets, replaces or removes window.Client
SetClient(h) ==
  /\ h # windowClient
  /\ windowClient' = h
  /\ UNCHANGED <<readyState, loadFired, resolverVars, callVars, bridgeVars, channelVars>>

(* ---------------------------- the event bridge ------------------------- *)

\* what a JSON text denotes, or the object a window posts as it is: the kind
\* of value and, of an object, its members type, prefs and isOpener
JBody(k, t, p, o) == [kind |-> k, type |-> t, prefs |-> p, isOpener |-> o]
NoBody   == JBody("none", "none", "none", "none")
\* a text that is not JSON
NotJson  == JBody("text", "none", "none", "none")
JNum     == JBody("num", "absent", "absent", "absent")
JNull    == JBody("null", "none", "none", "none")
JObj(t, p, o) == JBody("obj", t, p, o)

\* a string holding the JSON text of b, and the JavaScript value b itself
Text(b)   == [str |-> TRUE, body |-> b]
Parsed(b) == [str |-> FALSE, body |-> b]
NoData    == Parsed(NoBody)

\* the preferences of the configuration messages
Prefs == {"p1", "p2"}

\* the data of the message events the window may receive, from any origin
MessagePayloads ==
  {Parsed(JObj("applyConfig", "p1", "true")),
   Text(NotJson), Text(JNum), Text(JNull),
   Text(JObj("absent", "absent", "absent")),
   Text(JObj("other", "absent", "absent")),
   Text(JObj("openConfig", "absent", "absent")),
   Text(JObj("applyConfig", "p1", "true")),
   Text(JObj("applyConfig", "p2", "true")),
   Text(JObj("applyConfig", "p1", "false")),
   Text(JObj("applyConfig", "p1", "absent"))}

\* JSON.parse(e.data) of a string
JSONParseData(d) ==
  IF d.body.kind = "text" THEN [ok |-> FALSE, val |-> NoData]
  ELSE [ok |-> TRUE, val |-> Parsed(d.body)]

\* JSON.stringify(e) of a parsed value
JSONStringify(e) == Text(e.body)

\* the detail of a RevelDigital.Command event and the arguments of onCommand
CommandDetails == {[name |-> "play", arg |-> "a"], [name |-> "mute", arg |-> "b"]}
NoDetail == [name |-> "none", arg |-> "none"]

\* the ICommand object {name, arg}
Cmd(name, arg) == <<"cmd", name, arg>>

\* the DOM events the host dispatches on window
DomEvents ==
  {[type |-> "RevelDigital.Start", detail |-> NoDetail],
   [type |-> "RevelDigital.Stop", detail |-> NoDetail]}
  \cup {[type |-> "RevelDigital.Command", detail |-> c] : c \in CommandDetails}

\* the functions of window.RevelDigital.Controller
ControllerFunctions == {"onStart", "onStop", "onCommand"}

\* the public channels
Channels == {"onCommand$", "onReady$", "onStart$", "onStop$", "onConfig$",
             "onPostMessage$"}

\* one thing the bridge does: the value v emitted on the channel ch, or the
\* data posted to window.parent, or the error v reported as unhandled
Entry(ch, v, d) == [ch |-> ch, v |-> v, data |-> d]
Emit(ch, v)     == Entry(ch, v, NoData)
EmitData(ch, e) == Entry(ch, NoValue, e)
Post(d)         == Entry("window.parent", NoValue, d)
Unhandled(err)  == Entry("unhandled", err, NoData)

\* an inbound event as it was dispatched; live tells whether a listener of
\* the bridge was attached for it
Inbound(path, type, detail, data, origin, live) ==
  [path |-> path, type |-> type, detail |-> detail, data |-> data,
   origin |-> origin, live |-> live]

\* the entries of es on the channel ch, in order
RECURSIVE OnChannel(_, _)
OnChannel(es, ch) ==
  IF es = <<>> THEN <<>>
  ELSE IF Head(es).ch = ch THEN <<Head(es)>> \o OnChannel(Tail(es), ch)
  ELSE OnChannel(Tail(es), ch)

\* number of DOM events and Controller calls so far
NumSignals == Cardinality({i \in DOMAIN handled : handled[i].path # "message"})

\* number of messages other windows have posted so far
NumMessages ==
  Cardinality({i \in DOMAIN handled :
                 handled[i].path = "message" /\ handled[i].origin # "self"})
  + Cardinality({i \in DOMAIN inbox : inbox[i].origin # "self"})

\* the subjects deliver each entry to the subscribers of its channel
Deliver(subs, es) ==
  [i \in DOMAIN subs |-> [subs[i] EXCEPT !.got = @ \o OnChannel(es, subs[i].ch)]]

\* the bridge does es, in this order
Publish(es) ==
  /\ out' = out \o es
  /\ subscribers' = Deliver(subscribers, es)

\* onPostMessageEvt$ whose tap sends the message on as it came
onPostMessageEvtNoRewrite(d) ==
  IF ~d.str THEN [out |-> <<>>, error |-> FALSE]
  ELSE LET r == JSONParseData(d)
           e == r.val
       IN IF ~r.ok THEN [out |-> <<Unhandled(SyntaxError)>>, error |-> TRUE]
          ELSE IF e.body.kind = "null"
            THEN [out |-> <<Unhandled(TypeError)>>, error |-> TRUE]
          ELSE IF e.body.type = "applyConfig" /\ e.body.isOpener = "true"
            THEN [out |-> <<Post(JSONStringify(e)), EmitData("onPostMessage$", e)>>,
                  error |-> FALSE]
          ELSE IF e.body.type = "openConfig"
            THEN [out |-> <<Emit("onConfig$", Null), EmitData("onPostMessage$", e)>>,
                  error |-> FALSE]
          ELSE [out |-> <<EmitData("onPostMessage$", e)>>, error |-> FALSE]

\* onPostMessageEvt$ whose tap relays every applyConfig message, whatever
\* its isOpener
onPostMessageEvtRelaysAll(d) ==
  IF ~d.str THEN [out |-> <<>>, error |-> FALSE]
  ELSE LET r == JSONParseData(d)
           e == r.val
       IN IF ~r.ok THEN [out |-> <<Unhandled(SyntaxError)>>, error |-> TRUE]
          ELSE IF e.body.kind = "null"
            THEN [out |-> <<Unhandled(TypeError)>>, error |-> TRUE]
          ELSE IF e.body.type = "applyConfig"
            THEN LET f == Parsed([e.body EXCEPT !.isOpener = "false"])
                 IN [out |-> <<Post(JSONStringify(f)), EmitData("onPostMessage$", f)>>,
                     error |-> FALSE]
          ELSE IF e.body.type = "openConfig"
            THEN [out |-> <<Emit("onConfig$", Null), EmitData("onPostMessage$", e)>>,
                  error |-> FALSE]
          ELSE [out |-> <<EmitData("onPostMessage$", e)>>, error |-> FALSE]

\* onPostMessageEvt$ run for one message event with the data d: filter,
\* map(JSON.parse), the relay tap and the tap feeding onPostMessage$.  An
\* exception thrown by JSON.parse or by the read of e.type of null is sent
\* down the stream as an error: the subscriber has no error handler, so the
\* error is reported as unhandled and the subscription is closed
onPostMessageEvt(d) ==
  IF ~d.str THEN [out |-> <<>>, error |-> FALSE]
  ELSE LET r == JSONParseData(d)
           e == r.val
       IN IF ~r.ok THEN [out |-> <<Unhandled(SyntaxError)>>, error |-> TRUE]
          ELSE IF e.body.kind = "null"
            THEN [out |-> <<Unhandled(TypeError)>>, error |-> TRUE]
          ELSE IF e.body.type = "applyConfig" /\ e.body.isOpener = "true"
            THEN LET f == Parsed([e.body EXCEPT !.isOpener = "false"])
                 IN [out |-> <<Post(JSONStringify(f)), EmitData("onPostMessage$", f)>>,
                     error |-> FALSE]
          ELSE IF e.body.type = "openConfig"
            THEN [out |-> <<Emit("onConfig$", Null), EmitData("onPostMessage$", e)>>,
                  error |-> FALSE]
          ELSE [out |-> <<EmitData("onPostMessage$", e)>>, error |-> FALSE]

\* the messages among es that were posted to window.parent, as items of the
\* inbox of the window that receives them
RECURSIVE Posted(_)
Posted(es) ==
  IF es = <<>> THEN <<>>
  ELSE IF Head(es).ch = "window.parent"
    THEN <<[data |-> Head(es).data, origin |-> "self"]>> \o Posted(Tail(es))
  ELSE Posted(Tail(es))

\* the listener of onPostMessageEvt$ is attached
Listening == ~subsClosed /\ ~msgErrored

\* the browser dispatches the message event of the oldest message posted to
\* the window; a message the bridge posts to window.parent comes back to the
\* window itself when the window is top-level
MessageEvent ==
  /\ inbox # <<>>
  /\ LET m == Head(inbox)
         r == IF Listening THEN onPostMessageEvt(m.data)
              ELSE [out |-> <<>>, error |-> FALSE]
     IN /\ handled' = Append(handled,
                        Inbound("message", "message", NoDetail, m.data, m.origin, Listening))
        /\ Publish(r.out)
        /\ msgErrored' = (msgErrored \/ r.error)
        /\ inbox' = Tail(inbox) \o (IF hasParent THEN <<>> ELSE Posted(r.out))
  /\ UNCHANGED <<envVars, resolverVars, callVars, bridgeVars, hasParent, hasOpener, zone,
                 args, table>>

\* some window posts the data d to the window
PostMessage(d) ==
  /\ NumMessages < MaxMessages
  /\ inbox' = Append(inbox, [data |-> d, origin |-> "any"])
  /\ UNCHANGED <<envVars, resolverVars, callVars, bridgeVars, hasParent, hasOpener, zone, args,
                 msgErrored, handled, out, subscribers, table>>

\* NoopClient.applyConfig(prefs) that never tags the message as the opener's
NoopClientApplyConfigUntagged(prefs, opener) ==
  LET evt == Parsed(JObj("applyConfig", prefs, "false"))
  IN [to |-> IF opener THEN "opener" ELSE "parent", data |-> JSONStringify(evt)]

\* NoopClient.applyConfig(prefs) in a window with or without an opener: the
\* window the message is posted to and its data
NoopClientApplyConfig(prefs, opener) ==
  LET evt == Parsed(JObj("applyConfig", prefs, IF opener THEN "true" ELSE "false"))
  IN [to |-> IF opener THEN "opener" ELSE "parent", data |-> JSONStringify(evt)]

\* a popup the window has opened calls applyConfig(prefs) of its own service,
\* bound to the fallback: its NoopClient posts to window.opener, this window
PopupApplyConfig(prefs) ==
  /\ NumMessages < MaxMessages
  /\ LET p == NoopClientApplyConfig(prefs, TRUE)
     IN /\ p.to = "opener"
        /\ inbox' = Append(inbox, [data |-> p.data, origin |-> "popup"])
  /\ UNCHANGED <<envVars, resolverVars, callVars, bridgeVars, hasParent, hasOpener, zone, args,
                 msgErrored, handled, out, subscribers, table>>

\* the emissions es as the zone log keeps them: run tells whether the next()
\* calls were made inside the callback of zone.run
Published(es, run) == [i \in DOMAIN es |-> [ch |-> es[i].ch, run |-> run]]

\* the DOM pipelines without the map of onCommandEvt$: the event itself goes
\* to onCommand$ as it goes to onStart$ and onStop$
onDomEvtUnmapped(e) ==
  IF e.type = "RevelDigital.Start" THEN <<Emit("onStart$", Obj(e.type))>>
  ELSE IF e.type = "RevelDigital.Stop" THEN <<Emit("onStop$", Obj(e.type))>>
  ELSE <<Emit("onCommand$", Obj(e.type))>>

\* onStartEvt$, onStopEvt$ and onCommandEvt$ run for the DOM event e: the
\* event itself goes to onStart$ or onStop$, the mapped command to onCommand$
onDomEvt(e) ==
  IF e.type = "RevelDigital.Start" THEN <<Emit("onStart$", Obj(e.type))>>
  ELSE IF e.type = "RevelDigital.Stop" THEN <<Emit("onStop$", Obj(e.type))>>
  ELSE <<Emit("onCommand$", Cmd(e.detail.name, e.detail.arg))>>

\* the host dispatches the DOM event e on window
DomEvent(e) ==
  /\ NumSignals < MaxSignals
  /\ handled' = Append(handled,
                  Inbound("dom", e.type, e.detail, NoData, "host", ~subsClosed))
  /\ Publish(IF subsClosed THEN <<>> ELSE onDomEvt(e))
  /\ zone' = zone \o Published(IF subsClosed THEN <<>> ELSE onDomEvt(e), FALSE)
  /\ UNCHANGED <<envVars, resolverVars, callVars, bridgeVars, hasParent, hasOpener, args,
                 inbox, msgErrored, table>>

\* the function f of window.RevelDigital.Controller called with name and arg
Controller(f, name, arg) ==
  IF f = "onStart" THEN <<Emit("onStart$", Null)>>
  ELSE IF f = "onStop" THEN <<Emit("onStop$", Null)>>
  ELSE <<Emit("onCommand$", Cmd(name, arg))>>

\* the host calls window.RevelDigital.Controller.f(c.name, c.arg)
ControllerCall(f, c) ==
  /\ NumSignals < MaxSignals
  /\ (f = "onCommand") = (c # NoDetail)
  /\ handled' = Append(handled, Inbound("controller", f, c, NoData, "host", TRUE))
  /\ Publish(Controller(f, c.name, c.arg))
  /\ zone' = zone \o Published(Controller(f, c.name, c.arg), TRUE)
  /\ UNCHANGED <<envVars, resolverVars, callVars, bridgeVars, hasParent, hasOpener, args,
                 inbox, msgErrored, table>>

\* every channel a plain Subject: a new subscriber is handed nothing
ReplayedNothing(ch) == <<>>

\* every channel replaying what it emitted: onReady$ its last value, the
\* other channels all their emissions so far
ReplayedPast(ch) ==
  IF ch = "onReady$" THEN <<Emit(ch, IF ready THEN True ELSE False)>>
  ELSE OnChannel(out, ch)

\* what the subject of the channel ch hands to a new subscriber at once:
\* onReady$ is a BehaviorSubject, the other channels are plain Subjects
Replayed(ch) ==
  IF ch = "onReady$" THEN <<Emit(ch, IF ready THEN True ELSE False)>> ELSE <<>>

\* the application subscribes to the channel ch
Subscribe(ch) ==
  /\ Len(subscribers) < MaxSubscribers
  /\ subscribers' = Append(subscribers,
                      [ch |-> ch, at |-> Len(out), got |-> Replayed(ch)])
  /\ UNCHANGED <<envVars, resolverVars, callVars, bridgeVars, hasParent, hasOpener, zone, args,
                 inbox, msgErrored, handled, out, table>>

\* ngOnDestroy() whose unsubscribe calls toggle: a second call opens the
\* subscriptions again
ngOnDestroyReopens ==
  /\ subsClosed' = ~subsClosed
  /\ ready' = FALSE
  /\ subscribers' = Deliver(subscribers, <<Emit("onReady$", False)>>)
  /\ UNCHANGED <<envVars, resolverVars, callVars, hasParent, hasOpener, zone, args, inbox,
                 msgErrored, handled, out, table>>

\* ngOnDestroy() that also forgets the binding: this.clientPromise = null
ngOnDestroyResets ==
  /\ subsClosed' = TRUE
  /\ ready' = FALSE
  /\ subscribers' = Deliver(subscribers, <<Emit("onReady$", False)>>)
  /\ clientPromise' = NoPromise
  /\ UNCHANGED <<envVars, promises, loadListeners, noopCount, callVars, hasParent,
                 hasOpener, zone, args, inbox, msgErrored, handled, out, table>>

\* ngOnDestroy(): the subscriptions are closed and onReady$ emits false
ngOnDestroy ==
  /\ subsClosed' = TRUE
  /\ ready' = FALSE
  /\ subscribers' = Deliver(subscribers, <<Emit("onReady$", False)>>)
  /\ UNCHANGED <<envVars, resolverVars, callVars, hasParent, hasOpener, zone, args, inbox,
                 msgErrored, handled, out, table>>

Call == CallUpTo(MaxCalls)

Next ==
  \/ Call
  \/ \E m \in Methods : RunJob(m)
  \/ WindowLoad
  \/ ReadyStateChange
  \/ \E h \in 0..MaxHosts : SetClient(h)
  \/ ngOnDestroy

Spec == Init /\ [][Next]_vars

FairCall == CallUpTo(MaxFairCalls)

FairNext ==
  \/ FairCall
  \/ \E m \in Methods : RunJob(m)
  \/ WindowLoad
  \/ ReadyStateChange
  \/ \E h \in 0..MaxHosts : SetClient(h)
  \/ ngOnDestroy

\* the browser completes the document and fires load once, and it runs the
\* microtasks that are queued; nothing is assumed of the callers, of the
\* scripts that set window.Client or of the owner that destroys the service
FairSpec ==
  /\ Init /\ [][FairNext]_vars
  /\ WF_vars(ReadyStateChange)
  /\ WF_vars(WindowLoad)
  /\ WF_vars(\E m \in Methods : RunJob(m))

(* ----------------------- the event bridge at work --------------------- *)

\* the state after construction in a page that has loaded without a host,
\* in a frame or in a top-level window
BridgeInit ==
  /\ windowClient = NoClient
  /\ readyState = "complete"
  /\ loadFired = TRUE
  /\ hasParent \in BOOLEAN
  /\ hasOpener = FALSE
  /\ table = NoTable
  /\ InitService

\* the owner destroys the service, while the subscribers' logs have room
Teardown ==
  /\ \A i \in DOMAIN subscribers : Len(subscribers[i].got) <= MaxSignals
  /\ ngOnDestroy

\* the messages the window receives and what the bridge makes of them
MessageNext ==
  \/ \E d \in MessagePayloads : PostMessage(d)
  \/ \E p \in Prefs : PopupApplyConfig(p)
  \/ MessageEvent
  \/ Subscribe("onPostMessage$")
  \/ ngOnDestroy

MessageSpec == BridgeInit /\ [][MessageNext]_vars

\* the host's signals on both paths and the application's subscribers
SignalNext ==
  \/ \E e \in DomEvents : DomEvent(e)
  \/ \E f \in ControllerFunctions, c \in CommandDetails \cup {NoDetail} :
       ControllerCall(f, c)
  \/ \E ch \in {"onReady$", "onStart$", "onStop$", "onCommand$"} : Subscribe(ch)
  \/ Teardown

SignalSpec == BridgeInit /\ [][SignalNext]_vars

(* --------------------- the calls with their arguments ------------------ *)

\* the query methods of IClient
QueryMethods == Getters \cup {"getSdkVersion"}

\* the argument lists of callback(...args): none, one, ..., six arguments
Arguments    == <<"a1", "a2", "a3", "a4", "a5", "a6">>
CallbackArgs == {SubSeq(Arguments, 1, n) : n \in 0..Len(Arguments)}

\* the argument lists of newEventSession(id?): id omitted, id given, and
\* undefined given in its place
SessionIds == {<<>>, <<"s1">>, <<"undefined">>}

\* the argument lists of applyConfig(prefs)
PrefArgs == {<<p>> : p \in Prefs}

\* the methods whose arguments are followed and their argument lists
ArgMethods == {"callback", "newEventSession", "applyConfig"}
ArgsOf(m) ==
  IF m = "callback" THEN CallbackArgs
  ELSE IF m = "newEventSession" THEN SessionIds
  ELSE IF m = "applyConfig" THEN PrefArgs
  ELSE {<<>>}

\* a message posted to window.opener
PostOpener(d) == Entry("window.opener", NoValue, d)

\* what a continuation did: the call as its caller observes it, the
\* arguments the implementation's method received, the messages posted
Did(done, passed, posts) == [done |-> done, passed |-> passed, posts |-> posts]

\* callback(...args) whose switch ends with a default that passes all the
\* arguments on
callbackWithDefault(client, o, a) ==
  LET n == Len(a)
  IN IF n = 0 THEN Did(Command("callback", client, o), <<>>, <<>>)
     ELSE IF n <= 5 THEN Did(Command("callback", client, o), <<a[n]>>, <<>>)
     ELSE Did(Command("callback", client, o), a, <<>>)

\* the continuation of callback(...args): the switch over args.length
callback(client, o, a) ==
  LET n == Len(a)
  IN IF n = 0 THEN Did(Command("callback", client, o), <<>>, <<>>)
     ELSE IF n = 1 THEN Did(Command("callback", client, o), <<a[1]>>, <<>>)
     ELSE IF n = 2 THEN Did(Command("callback", client, o), <<a[2]>>, <<>>)
     ELSE IF n = 3 THEN Did(Command("callback", client, o), <<a[3]>>, <<>>)
     ELSE IF n = 4 THEN Did(Command("callback", client, o), <<a[4]>>, <<>>)
     ELSE IF n = 5 THEN Did(Command("callback", client, o), <<a[5]>>, <<>>)
     ELSE Did(Done("callback", client, NoOutcome, 0, Returned, NoValue), <<>>, <<>>)

\* the continuation of newEventSession(id): id !== undefined calls
\* client.newEventSession(), otherwise client.newEventSession(id)
newEventSession(client, o, a) ==
  IF a # <<>> /\ a # <<"undefined">>
    THEN Did(Command("newEventSession", client, o), <<>>, <<>>)
    ELSE Did(Command("newEventSession", client, o), <<"undefined">>, <<>>)

\* applyConfig(prefs) that delegates whatever the binding is
applyConfigAlways(client, o, a) ==
  LET p == NoopClientApplyConfig(a[1], hasOpener)
  IN Did(Done("applyConfig", client, o, 1, Resolved(Undefined), NoValue), a,
         <<IF p.to = "opener" THEN PostOpener(p.data) ELSE Post(p.data)>>)

\* the continuation of applyConfig(prefs): in preview mode (the binding is a
\* NoopClient) client.applyConfig(prefs) posts the message, otherwise the
\* method only logs
applyConfig(client, o, a) ==
  IF client.kind = "noop"
    THEN LET p == NoopClientApplyConfig(a[1], hasOpener)
         IN Did(Done("applyConfig", client, o, 1, Resolved(Undefined), NoValue), a,
                <<IF p.to = "opener" THEN PostOpener(p.data) ELSE Post(p.data)>>)
    ELSE Did(Done("applyConfig", client, NoOutcome, 0, Resolved(Undefined), NoValue),
             <<>>, <<>>)

\* the continuation of a call of method m with the arguments a
ContinueWith(m, client, o, a) ==
  IF m = "callback" THEN callback(client, o, a)
  ELSE IF m = "newEventSession" THEN newEventSession(client, o, a)
  ELSE IF m = "applyConfig" THEN applyConfig(client, o, a)
  ELSE Did(Continue(m, client, o), a, <<>>)

\* the outcomes of the implementation's method in a call of m with a: none
\* when the continuation does not invoke it
OutcomesWith(m, client, a) ==
  IF \/ m = "isPreviewMode"
     \/ m = "callback" /\ Len(a) > 5
     \/ m = "applyConfig" /\ client.kind # "noop"
    THEN {NoOutcome}
    ELSE Invoke(client, m)

\* the microtask at the head of the queue runs: the continuation of a call
\* of method m with the arguments a
RunWith(m, a) ==
  /\ jobs # <<>>
  /\ LET c == Head(jobs)
         client == promises[c.promise].value
     IN \E o \in OutcomesWith(m, client, a) :
          LET r == ContinueWith(m, client, o, a)
          IN /\ last' = r.done
             /\ args' = [given |-> a, passed |-> r.passed]
             /\ Publish(r.posts)
             /\ inbox' = inbox \o (IF hasParent THEN <<>> ELSE Posted(r.posts))
             /\ served' = Append(served, [client |-> client, early |-> c.early,
                               seq |-> c.seq])
  /\ jobs' = Tail(jobs)
  /\ UNCHANGED <<envVars, bridgeVars, resolverVars, waiting, hasParent,
                 hasOpener, zone, msgErrored, handled, table>>

\* the query method m of the bound NoopClient is called on the instance itself
Probe(m) ==
  /\ clientPromise # NoPromise
  /\ promises[clientPromise].value.kind = "noop"
  /\ last' = Done(m, promises[clientPromise].value, NoopClient(m), 1,
                  Resolved(NoopClient(m).v), NoValue)
  /\ args' = NoArgs
  /\ UNCHANGED <<envVars, bridgeVars, resolverVars, waiting, jobs, served,
                 hasParent, hasOpener, zone, inbox, msgErrored, handled, out,
                 subscribers, table>>

\* the state after construction in any window: embedded or top-level, opened
\* by another window or not, at any stage of loading
CallInit ==
  /\ windowClient \in 0..MaxHosts
  /\ readyState \in {"loading", "interactive", "complete"}
  /\ loadFired \in BOOLEAN
  /\ loadFired => readyState = "complete"
  /\ hasParent \in BOOLEAN
  /\ hasOpener \in BOOLEAN
  /\ table = NoTable
  /\ InitService

ArgCall == CallUpTo(MaxArgCalls)

CallNext ==
  \/ ArgCall
  \/ \E m \in ArgMethods \cup Getters \cup Commands : \E a \in ArgsOf(m) : RunWith(m, a)
  \/ \E m \in QueryMethods : Probe(m)
  \/ WindowLoad
  \/ ReadyStateChange
  \/ \E h \in 0..MaxHosts : SetClient(h)

CallSpec == CallInit /\ [][CallNext]_vars

(* ------------------------------ DataTableRef --------------------------- *)

\* the row events of the library; each feeds the stream of its name
RowEvents == {"rowUpdated", "rowCreated", "rowDeleted"}

\* the changes the library reports
Changes == {"r1", "r2"}

\* _wireEvents(): a listener is registered on the instance for each event
wireEvents(t) == [t EXCEPT !.listeners = RowEvents]

\* the state after new DataTableRef(tableId, zone) or after
\* new DataTablePrefRef(prefValue, zone), whose dataTable is such a ref
TableInit ==
  /\ windowClient = NoClient
  /\ readyState = "complete"
  /\ loadFired = TRUE
  /\ hasParent = TRUE
  /\ hasOpener = FALSE
  /\ InitService
  /\ \E k \in {"table", "pref"} : table = wireEvents([NoTable EXCEPT !.kind = k])

\* handlers that all feed rowUpdated$
onRowAllUpdated(t, e, c) ==
  IF "rowUpdated" \in t.completed THEN t.emitted
  ELSE Append(t.emitted, [stream |-> "rowUpdated", change |-> c, run |-> TRUE])

\* the handler of the event e runs with the change c: inside zone.run, the
\* stream's next(c), which a completed Subject ignores
onRow(t, e, c) ==
  IF e \in t.completed THEN t.emitted
  ELSE Append(t.emitted, [stream |-> e, change |-> c, run |-> TRUE])

\* the library fires the event e with the change c: the listener registered
\* for e, if any, runs
LibraryEvent(e, c) ==
  /\ Len(table.events) < MaxRowEvents
  /\ table' = [table EXCEPT
                 !.events = Append(@, [event |-> e, change |-> c, late |-> FALSE]),
                 !.emitted = IF e \in table.listeners THEN onRow(table, e, c) ELSE @]
  /\ UNCHANGED <<envVars, resolverVars, callVars, bridgeVars, hasParent,
                 inbox, msgErrored, handled, out, subscribers, hasOpener, zone, args>>

\* the library runs a handler of e that has since been removed (the event
\* was already on its way)
LateHandlerCall(e, c) ==
  /\ Len(table.events) < MaxRowEvents
  /\ e \notin table.listeners
  /\ table' = [table EXCEPT
                 !.events = Append(@, [event |-> e, change |-> c, late |-> TRUE]),
                 !.emitted = onRow(table, e, c)]
  /\ UNCHANGED <<envVars, resolverVars, callVars, bridgeVars, hasParent,
                 inbox, msgErrored, handled, out, subscribers, hasOpener, zone, args>>

\* dispose() that leaves the listeners and the streams as they are
disposeInstanceOnly(t) ==
  [t EXCEPT !.instanceDisposed = TRUE, !.disposed = TRUE]

\* DataTableRef.dispose(): off() for the three listeners, dispose() of the
\* instance, complete() of the three streams
dispose(t) ==
  [t EXCEPT !.listeners = {}, !.instanceDisposed = TRUE,
            !.completed = RowEvents, !.disposed = TRUE]

\* the owner disposes the DataTableRef
Dispose ==
  /\ table' = dispose(table)
  /\ UNCHANGED <<envVars, resolverVars, callVars, bridgeVars, hasParent,
                 inbox, msgErrored, handled, out, subscribers, hasOpener, zone, args>>

\* DataTablePrefRef.dispose(): this.dataTable.dispose()
PrefDispose ==
  /\ table.kind = "pref"
  /\ table' = dispose(table)
  /\ UNCHANGED <<envVars, resolverVars, callVars, bridgeVars, hasParent,
                 inbox, msgErrored, handled, out, subscribers, hasOpener, zone, args>>

TableNext ==
  \/ \E e \in RowEvents, c \in Changes : LibraryEvent(e, c)
  \/ \E e \in RowEvents, c \in Changes : LateHandlerCall(e, c)
  \/ Dispose
  \/ PrefDispose

TableSpec == TableInit /\ [][TableNext]_vars

(* ------------------------------ properties ----------------------------- *)

\* the resolved binding: the value of this.clientPromise once it is fulfilled
Binding ==
  IF clientPromise # NoPromise THEN promises[clientPromise].value ELSE NoInstance

\* the first call of a host-dependent method happens in this step
FirstCall == clientPromise = NoPromise /\ clientPromise' # NoPromise

\* a continuation runs in this step
Serves == Len(served') = Len(served) + 1

\* C1: all calls made while the resolution was still pending are served by
\* one and the same instance, whatever the interleaving with window.Client
\* being set and the load event firing: all live or all fallback, never a mix
C1_OneInstanceForAllEarlyCalls ==
  \A i, j \in 1..Len(served) :
    served[i].early /\ served[j].early => served[i].client = served[j].client

\* two calls were made while the resolution was pending and both were served
\* by the host object that appeared before the load event
C1_Witness ==
  /\ Len(served) >= 2
  /\ served[1].early /\ served[2].early
  /\ served[1].client.kind = "live"

\* C2: once a binding is resolved it never changes, whatever happens to
\* window.Client, and every continuation that runs from then on receives
\* that instance; a fallback binding is never replaced by a live one
C2_BindingIsStable ==
  [][Binding # NoInstance =>
       /\ Binding' = Binding
       /\ Serves => served'[Len(served')].client = Binding]_vars

\* the binding is the fallback, window.Client has been set since, and a call
\* made after the resolution was served by the fallback
C2_Witness ==
  /\ Binding.kind = "noop"
  /\ windowClient # NoClient
  /\ Len(served) >= 2
  /\ ~served[Len(served)].early
  /\ served[Len(served)].client = Binding

\* C3: when window.Client is present at the first call, getClient binds to it
\* in that call, whatever document.readyState is: the promise is fulfilled
\* with it at once, no load listener is registered and the continuation is
\* queued without waiting for the load event
C3_BindsPresentHostAtCallTime ==
  [][FirstCall /\ windowClient # NoClient =>
       /\ promises'[clientPromise'] = Fulfilled(Live(windowClient))
       /\ loadListeners' = loadListeners
       /\ waiting' = waiting
       /\ Len(jobs') = Len(jobs) + 1]_vars

\* a call was served by the live host while the document was still loading
C3_Witness ==
  /\ readyState = "loading"
  /\ Binding.kind = "live"
  /\ loadListeners = <<>>
  /\ served # <<>>

\* C4: when window.Client is absent and document.readyState is "complete" at
\* the first call, getClient binds a new NoopClient in that call: no load
\* listener is registered and the continuation does not wait
C4_FallbackAtOnceWhenComplete ==
  [][FirstCall /\ windowClient = NoClient /\ readyState = "complete" =>
       /\ promises'[clientPromise'] = Fulfilled(Noop(noopCount'))
       /\ noopCount' = noopCount + 1
       /\ loadListeners' = loadListeners
       /\ waiting' = waiting
       /\ Len(jobs') = Len(jobs) + 1]_vars

\* a call was served by the fallback although no load listener was ever registered
C4_Witness ==
  /\ Binding.kind = "noop"
  /\ loadListeners = <<>>
  /\ served # <<>>

\* C5: when window.Client is absent and the document is not complete at the
\* first call, the promise stays pending and no call is served before the
\* load event; the load event fulfils it with window.Client if that is
\* present at that moment and with the fallback otherwise
C5_WaitsForLoadThenBinds ==
  [][/\ (FirstCall /\ windowClient = NoClient /\ readyState # "complete" =>
           /\ promises'[clientPromise'] = Pending
           /\ loadListeners' = <<clientPromise'>>)
     /\ (loadListeners' # <<>> /\ ~loadFired' =>
           Binding' = NoInstance /\ served' = <<>> /\ jobs' = <<>>)
     /\ (loadListeners # <<>> /\ ~loadFired /\ loadFired' =>
           Binding' = IF windowClient # NoClient THEN Live(windowClient)
                                                 ELSE Noop(noopCount'))]_vars

\* a call made before the load event was served by a host object that was
\* set between the call and the load event
C5_Witness ==
  /\ loadListeners # <<>>
  /\ loadFired
  /\ served # <<>>
  /\ served[1].early
  /\ served[1].client.kind = "live"

\* C6: once a host-dependent method has been called the resolution completes
\* (the load event being fired when the document is still loading); it is
\* not pending after the load event, and ngOnDestroy does not cancel it
C6_ResolutionCompletes ==
  /\ (clientPromise # NoPromise) ~> (Binding # NoInstance)
  /\ [](loadFired /\ clientPromise # NoPromise => Binding # NoInstance)

\* the service was destroyed and a call that had to wait for the load event
\* was served all the same
C6_Witness ==
  /\ ~ready
  /\ served # <<>>
  /\ served[1].early
  /\ waiting = <<>>

\* C7: isPreviewMode() resolves to true exactly when the binding is the
\* NoopClient and to false exactly when it is the live host, and two calls
\* in a row give the same answer
C7_PreviewModeIffFallback ==
  [][last'.method = "isPreviewMode" =>
       /\ last'.result.k = "resolved"
       /\ last'.client = Binding'
       /\ (last'.result.v = True <=> Binding'.kind = "noop")
       /\ (last'.result.v = False <=> Binding'.kind = "live")
       /\ (last.method = "isPreviewMode" => last'.result = last.result)]_vars

\* two calls were served by the fallback and isPreviewMode() resolved to true
C7_Witness ==
  /\ last.method = "isPreviewMode"
  /\ last.result = Resolved(True)
  /\ Len(served) >= 2
  /\ Binding.kind = "noop"

\* C8: with the fallback bound every read-only getter resolves (to null or to
\* a benign default) and none rejects; getDevice() resolves to null
C8_FallbackGettersResolve ==
  last.client.kind = "noop" /\ last.method \in Getters =>
    /\ last.result.k = "resolved"
    /\ last.method = "getDevice" => last.result.v = Null

C10_GettersPassHostValueThrough ==
  last.client.kind = "live" /\ last.method \in PassThroughGetters
    /\ last.outcome.k = "value" => last.result = Resolved(last.outcome.v)

\* getDeviceKey() resolved to the host's string, a text JSON.parse would
\* have turned into an object
C10_Witness ==
  /\ last.method = "getDeviceKey"
  /\ last.client.kind = "live"
  /\ last.outcome = Value(Str("{}"))
  /\ last.result = Resolved(Str("{}"))

(* ---------------------- properties of the event bridge ----------------- *)

\* what the bridge does in this step, in order
Fresh == SubSeq(out', Len(out) + 1, Len(out'))

\* the message event of a message with the data d is dispatched in this step
Receives(d) ==
  /\ inbox # <<>>
  /\ Head(inbox).data = d
  /\ Len(handled') = Len(handled) + 1
  /\ handled'[Len(handled')].path = "message"

\* the applyConfig message with the preferences p and the isOpener member o
ApplyConfig(p, o) == JObj("applyConfig", p, o)

\* C11: when the window of a service that was not destroyed receives a string
\* that parses to an applyConfig message whose isOpener is true, the bridge
\* posts exactly one message to window.parent, with the same type and prefs
\* and isOpener false, and emits nothing on onConfig$
C11_RelaysOpenerConfigOnce ==
  [][\A p \in Prefs :
       Receives(Text(ApplyConfig(p, "true"))) /\ ~subsClosed =>
         /\ OnChannel(Fresh, "window.parent") = <<Post(Text(ApplyConfig(p, "false")))>>
         /\ OnChannel(Fresh, "onConfig$") = <<>>]_vars

\* C12: when the window of a service that was not destroyed receives a string
\* that parses to an applyConfig message whose isOpener is false or absent,
\* the bridge posts nothing and emits the parsed message, unchanged, on
\* onPostMessage$ and on no other channel
C12_PlainConfigIsOnlyEmitted ==
  [][\A p \in Prefs, o \in {"false", "absent"} :
       Receives(Text(ApplyConfig(p, o))) /\ ~subsClosed =>
         Fresh = <<EmitData("onPostMessage$", Parsed(ApplyConfig(p, o)))>>]_vars

\* C13: the message of a popup's applyConfig(prefs) reaches the window that
\* opened it tagged isOpener true, and when that window's service (not
\* destroyed) receives it, its bridge forwards it once: exactly one
\* applyConfig message with the same prefs and isOpener false is posted to
\* window.parent
C13_PopupConfigReachesParentOnce ==
  [][(inbox # <<>> /\ Head(inbox).origin = "popup"
      /\ Receives(Head(inbox).data) /\ ~subsClosed) =>
       LET d == Head(inbox).data
       IN /\ d = Text(ApplyConfig(d.body.prefs, "true"))
          /\ d.body.prefs \in Prefs
          /\ OnChannel(Fresh, "window.parent")
               = <<Post(Text(ApplyConfig(d.body.prefs, "false")))>>]_vars

\* C14: no subscriber of onPostMessage$ ever receives an applyConfig message
\* whose isOpener is true: when such a message comes in, the emission on
\* onPostMessage$ carries isOpener false, and the message posted to
\* window.parent, rewritten alike, goes out in the same step just before it
C14_RewriteAndRelayBeforeEmission ==
  /\ [](\A i \in DOMAIN subscribers : \A j \in DOMAIN subscribers[i].got :
          LET b == subscribers[i].got[j].data.body
          IN ~(b.type = "applyConfig" /\ b.isOpener = "true"))
  /\ [][\A i \in DOMAIN Fresh :
          (/\ Fresh[i].ch = "onPostMessage$"
           /\ inbox # <<>>
           /\ Head(inbox).data.body.type = "applyConfig"
           /\ Head(inbox).data.body.isOpener = "true") =>
            /\ Fresh[i].data = Parsed([Head(inbox).data.body EXCEPT !.isOpener = "false"])
            /\ i > 1
            /\ Fresh[i - 1] = Post(JSONStringify(Fresh[i].data))]_vars

\* a subscriber of onPostMessage$ has received the rewritten message of an
\* applyConfig message that came in with isOpener true, after it was relayed
C14_Witness ==
  /\ Len(handled) >= 1
  /\ handled[Len(handled)].data = Text(ApplyConfig("p1", "true"))
  /\ Len(out) >= 2
  /\ out[Len(out) - 1] = Post(Text(ApplyConfig("p1", "false")))
  /\ \E i \in DOMAIN subscribers :
       /\ subscribers[i].ch = "onPostMessage$"
       /\ subscribers[i].got = <<EmitData("onPostMessage$", Parsed(ApplyConfig("p1", "false")))>>

\* C15: a message whose data is a string that is not JSON, the JSON text of a
\* number or the JSON text of an object without a type member makes the
\* bridge do nothing: no emission on any channel, onPostMessage$ included, no
\* outbound message and no error
C15_MalformedMessageIsIgnored ==
  [][\A d \in {Text(NotJson), Text(JNum), Text(JObj("absent", "absent", "absent"))} :
       Receives(d) => Fresh = <<>> /\ msgErrored' = msgErrored]_vars

\* the message the bridge hands to onPostMessage$ for the parsed message e:
\* an applyConfig message with isOpener true has been rewritten by the relay
AfterRelay(e) ==
  IF e.body.type = "applyConfig" /\ e.body.isOpener = "true"
    THEN Parsed([e.body EXCEPT !.isOpener = "false"])
    ELSE e

\* C16: while the service is not destroyed, every message whose data is a
\* string of valid JSON yields exactly one emission on onPostMessage$, which
\* carries the parsed value as the relay left it, whatever its type member;
\* a message whose data is not a string yields none
C16_EveryJsonMessageIsEmittedOnce ==
  [][(inbox # <<>> /\ Receives(Head(inbox).data) /\ ~subsClosed) =>
       LET d == Head(inbox).data
       IN /\ (d.str /\ JSONParseData(d).ok) =>
               OnChannel(Fresh, "onPostMessage$")
                 = <<EmitData("onPostMessage$", AfterRelay(JSONParseData(d).val))>>
          /\ ~d.str => OnChannel(Fresh, "onPostMessage$") = <<>>]_vars

\* C17: while the service is not destroyed, a message that parses to an object
\* of type openConfig yields exactly one emission on onConfig$, without a
\* payload, and no outbound message; any other message yields no emission on
\* onConfig$
C17_OpenConfigEmitsOnConfig ==
  [][(inbox # <<>> /\ Receives(Head(inbox).data) /\ ~subsClosed) =>
       LET d == Head(inbox).data
       IN IF d.str /\ d.body.kind = "obj" /\ d.body.type = "openConfig"
            THEN /\ OnChannel(Fresh, "onConfig$") = <<Emit("onConfig$", Null)>>
                 /\ OnChannel(Fresh, "window.parent") = <<>>
            ELSE OnChannel(Fresh, "onConfig$") = <<>>]_vars

\* the emissions on onCommand$ the commands in hs call for, in order: one
\* {name, arg} for each RevelDigital.Command event dispatched while the
\* service was not destroyed and for each Controller.onCommand call
RECURSIVE CommandsOf(_)
CommandsOf(hs) ==
  IF hs = <<>> THEN <<>>
  ELSE LET h == Head(hs)
       IN IF \/ h.path = "dom" /\ h.type = "RevelDigital.Command" /\ h.live
             \/ h.path = "controller" /\ h.type = "onCommand"
            THEN <<Emit("onCommand$", Cmd(h.detail.name, h.detail.arg))>>
                   \o CommandsOf(Tail(hs))
            ELSE CommandsOf(Tail(hs))

\* C18: a command that comes as the DOM event RevelDigital.Command with the
\* detail {name, arg} (before the service is destroyed) and the same command
\* that comes as Controller.onCommand(name, arg) each yield exactly one
\* emission on onCommand$, with the same value {name, arg} on both paths
C18_BothCommandPathsEmitTheSame ==
  OnChannel(out, "onCommand$") = CommandsOf(handled)

\* the same command came once on each path and was emitted twice, alike
C18_Witness ==
  /\ Len(handled) = 2
  /\ handled[1].path = "dom" /\ handled[1].type = "RevelDigital.Command"
  /\ handled[2].path = "controller" /\ handled[2].type = "onCommand"
  /\ handled[1].detail = handled[2].detail
  /\ Len(out) = 2
  /\ out[1] = out[2]
  /\ out[1] = Emit("onCommand$", Cmd("play", "a"))

\* the application subscribes in this step
Subscribes == Len(subscribers') = Len(subscribers) + 1

\* C19: a subscriber of onReady$ is handed the last value at once: true when
\* it subscribes after construction and before ngOnDestroy, false when it
\* subscribes after ngOnDestroy
C19_ReadyReplaysLastValue ==
  [][(Subscribes /\ subscribers'[Len(subscribers')].ch = "onReady$") =>
       subscribers'[Len(subscribers')].got
         = <<Emit("onReady$", IF subsClosed THEN False ELSE True)>>]_vars

\* a subscriber that came after ngOnDestroy was handed false
C19_Witness ==
  /\ subsClosed
  /\ \E i \in DOMAIN subscribers :
       /\ subscribers[i].ch = "onReady$"
       /\ subscribers[i].got = <<Emit("onReady$", False)>>

\* C20: a subscriber of onStart$, onStop$ or onCommand$ receives none of the
\* events emitted before it subscribed: what it has received is what the
\* channel emitted since
C20_NoReplayOfPastEvents ==
  \A i \in DOMAIN subscribers :
    LET s == subscribers[i]
    IN s.ch \in {"onStart$", "onStop$", "onCommand$"} =>
         s.got = OnChannel(SubSeq(out, s.at + 1, Len(out)), s.ch)

\* a subscriber of onCommand$ that came after one command has received the
\* next command only
C20_Witness ==
  \E i \in DOMAIN subscribers :
    LET s == subscribers[i]
    IN /\ s.ch = "onCommand$"
       /\ s.at = 1
       /\ Len(out) = 2
       /\ out[1].ch = "onCommand$" /\ out[2].ch = "onCommand$"
       /\ out[1] # out[2]
       /\ s.got = <<out[2]>>

\* C21: once ngOnDestroy has run, ready is false and the bridge does nothing
\* more: no DOM event, Controller call or message yields an emission on a
\* channel or a message to window.parent
C21_NothingAfterDestroy ==
  [][subsClosed => (~ready /\ ~ready' /\ out' = out)]_vars

\* C22: ngOnDestroy called again after it has run leaves the bridge as the
\* first call left it: the source subscriptions closed, ready false, nothing
\* emitted on the event channels, nothing posted and no error reported
C22_TeardownIsIdempotent ==
  [][(subsClosed /\ ngOnDestroy) =>
       /\ subsClosed' /\ ~ready'
       /\ UNCHANGED <<ready, subsClosed, msgErrored, inbox, handled, out,
                      hasParent, hasOpener, zone, args, envVars, resolverVars, callVars,
                      table>>]_vars

\* ngOnDestroy has run twice: a subscriber of onReady$ that came before the
\* first call was handed true and then false once per call
C22_Witness ==
  /\ subsClosed /\ ~ready
  /\ \E i \in DOMAIN subscribers :
       /\ subscribers[i].ch = "onReady$"
       /\ subscribers[i].got
            = <<Emit("onReady$", True), Emit("onReady$", False), Emit("onReady$", False)>>

(* ------------------------ properties of the calls ---------------------- *)

\* the most recently completed call invoked the query method of a NoopClient
FallbackQuery ==
  last.client.kind = "noop" /\ last.method \in QueryMethods /\ last.invoked = 1

\* C23 as claimed: every query method of the NoopClient resolves to null,
\* except getDeviceTime (the current time) and getSdkVersion (the version)
C23_FallbackQueriesResolveNull ==
  FallbackQuery =>
    last.outcome = IF last.method = "getDeviceTime" THEN Value(IsoNow)
                   ELSE IF last.method = "getSdkVersion" THEN Value(SdkVersion)
                   ELSE Value(Null)

\* C23: every query method of the NoopClient resolves to null, with three
\* exceptions: getDeviceTime resolves to the current time as an ISO string,
\* getSdkVersion to the library's version and getCommandMap to the text "{}"
C23_FallbackQueriesResolveNullOrEmptyMap ==
  FallbackQuery =>
    last.outcome = IF last.method = "getDeviceTime" THEN Value(IsoNow)
                   ELSE IF last.method = "getSdkVersion" THEN Value(SdkVersion)
                   ELSE IF last.method = "getCommandMap" THEN Value(Str("{}"))
                   ELSE Value(Null)

\* the NoopClient's getCommandMap was called and resolved to "{}"
C23_Witness ==
  /\ FallbackQuery
  /\ last.method = "getCommandMap"
  /\ last.outcome = Value(Str("{}"))

\* the continuation of an applyConfig call runs in this step
AppliesConfig == Serves /\ last'.method = "applyConfig"

\* C24: NoopClient.applyConfig(prefs) posts exactly one message, the JSON
\* text of {type: 'applyConfig', prefs, isOpener}: to window.opener with
\* isOpener true when the window has an opener, otherwise to window.parent
\* with isOpener false, never to both
C24_FallbackPostsConfigOnce ==
  [][(AppliesConfig /\ last'.client.kind = "noop") =>
       Fresh = <<IF hasOpener
                   THEN PostOpener(Text(ApplyConfig(args'.given[1], "true")))
                   ELSE Post(Text(ApplyConfig(args'.given[1], "false")))>>]_vars

\* in a window with an opener the fallback has posted the tagged message to
\* the opener, and nothing else
C24_Witness ==
  /\ hasOpener
  /\ last.method = "applyConfig" /\ last.client.kind = "noop"
  /\ args.given = <<"p1">>
  /\ out = <<PostOpener(Text(ApplyConfig("p1", "true")))>>

\* C25: applyConfig(prefs) of the service takes effect only in preview mode:
\* bound to the fallback it calls the fallback's applyConfig exactly once,
\* with prefs, which posts one message; bound to a live host it invokes no
\* method of the host and posts nothing
C25_ApplyConfigOnlyInPreview ==
  [][AppliesConfig =>
       IF last'.client.kind = "noop"
         THEN last'.invoked = 1 /\ args'.passed = args'.given /\ Len(Fresh) = 1
         ELSE last'.invoked = 0 /\ last'.outcome = NoOutcome /\ Fresh = <<>>]_vars

\* applyConfig was called with a live host bound and did nothing
C25_Witness ==
  /\ last.method = "applyConfig"
  /\ last.client.kind = "live"
  /\ last.invoked = 0
  /\ args.given = <<"p1">>
  /\ out = <<>>

\* C26: callback(a1, ..., an) with n from 0 to 5 invokes the bound
\* implementation's callback exactly once, with the same arguments in the
\* same order
C26_CallbackForwardsArguments ==
  [][(Serves /\ last'.method = "callback" /\ Len(args'.given) <= 5) =>
       last'.invoked = 1 /\ args'.passed = args'.given]_vars

\* no session id: the argument omitted, or undefined in its place
NoSessionId == {<<>>, <<"undefined">>}

\* C27: newEventSession(id) passes id through: given an id, the bound
\* implementation's newEventSession is invoked with that id; without one it
\* is invoked with no session id
C27_SessionIdPassesThrough ==
  [][(Serves /\ last'.method = "newEventSession") =>
       /\ last'.invoked = 1
       /\ IF args'.given \in NoSessionId
            THEN args'.passed \in NoSessionId
            ELSE args'.passed = args'.given]_vars

(* ----------------------- properties of DataTableRef -------------------- *)

\* C28: after dispose() the three listeners are removed from the instance,
\* the instance is disposed and the three streams are completed, and no row
\* event of the library yields an emission on any of the streams any more
C28_NoRowEventAfterDispose ==
  /\ [](table.disposed =>
          /\ table.listeners = {}
          /\ table.instanceDisposed
          /\ table.completed = RowEvents)
  /\ [][table.disposed => table'.emitted = table.emitted]_vars

\* a row event was emitted, the ref was disposed, and two row events that
\* came afterwards, one through a handler still held, emitted nothing
C28_Witness ==
  /\ table.disposed
  /\ Len(table.events) = 3
  /\ Len(table.emitted) = 1
  /\ table.events[2].late # table.events[3].late

(* ------------------ further properties of the event bridge ------------- *)

\* the data of a well-formed message: a string holding the JSON text of an
\* object
WellFormed(d) == d.str /\ d.body.kind = "obj"

\* the data of a malformed message: not a string, or a string that is not JSON
Malformed(d) == ~d.str \/ d.body.kind = "text"

\* a malformed message has been received
MalformedSeen ==
  \E i \in DOMAIN handled :
    handled[i].path = "message" /\ Malformed(handled[i].data)

\* C29: after a malformed message (data that is not a string, or a string
\* that is not JSON) the bridge of a service that was not destroyed keeps
\* processing: a well-formed message that comes later is relayed and emitted
\* on onConfig$ and onPostMessage$ as the pipeline does for it when nothing
\* came before
C29_KeepsProcessingAfterMalformed ==
  [][(inbox # <<>> /\ Receives(Head(inbox).data) /\ ~subsClosed
      /\ MalformedSeen /\ WellFormed(Head(inbox).data)) =>
       Fresh = onPostMessageEvt(Head(inbox).data).out]_vars

\* C30: over any sequence of calls at most one load listener is registered
\* on the window and at most one NoopClient is constructed (one degraded-mode
\* log entry), and a NoopClient is constructed only in the step that binds it
C30_OneListenerOneFallback ==
  /\ [](Len(loadListeners) <= 1 /\ noopCount <= 1)
  /\ [][noopCount' # noopCount =>
          Binding' = Noop(noopCount') /\ (Binding = NoInstance \/ Binding = Pending.value)]_vars

\* two calls were made while the page was loading: one listener was
\* registered, and the load event bound the one NoopClient both calls got
C30_Witness ==
  /\ Len(served) >= 2
  /\ served[1].early /\ served[2].early
  /\ Len(loadListeners) = 1
  /\ noopCount = 1
  /\ served[1].client = Noop(1) /\ served[2].client = Noop(1)

(* ---------------------- properties of the host signals ----------------- *)

\* C31: every emission on onStart$, onStop$ and onCommand$ that a host signal
\* causes, on the DOM-event path as on the Controller path, is published
\* inside zone.run: the bridge re-enters the Angular zone itself on both paths
C31_PublishedInsideZoneRun ==
  \A i \in DOMAIN zone : zone[i].run

\* the DOM event type and the Controller function that feed the channel ch
DomTypeOf(ch) ==
  IF ch = "onStart$" THEN "RevelDigital.Start"
  ELSE IF ch = "onStop$" THEN "RevelDigital.Stop" ELSE "RevelDigital.Command"

FunctionOf(ch) ==
  IF ch = "onStart$" THEN "onStart" ELSE IF ch = "onStop$" THEN "onStop" ELSE "onCommand"

\* the signals in hs that feed the channel ch, in order: the DOM events
\* dispatched while the service was not destroyed and the Controller calls
RECURSIVE SignalsOf(_, _)
SignalsOf(hs, ch) ==
  IF hs = <<>> THEN <<>>
  ELSE LET h == Head(hs)
       IN IF \/ h.path = "dom" /\ h.type = DomTypeOf(ch) /\ h.live
             \/ h.path = "controller" /\ h.type = FunctionOf(ch)
            THEN <<h>> \o SignalsOf(Tail(hs), ch)
            ELSE SignalsOf(Tail(hs), ch)

\* C32: each start signal, as the DOM event RevelDigital.Start (before the
\* service is destroyed) or as Controller.onStart(), yields exactly one
\* emission on onStart$, and each stop signal one on onStop$; the emission
\* carries no payload on either path
C32_StartAndStopCarryNoPayload ==
  \A ch \in {"onStart$", "onStop$"} :
    OnChannel(out, ch) = [i \in DOMAIN SignalsOf(handled, ch) |-> Emit(ch, Null)]

\* what the signal handled in this step calls for, in order: the emissions
\* of the pipeline or Controller function it came through, run for this one
\* signal while the service is not destroyed; nothing when no signal is
\* handled in the step
Due ==
  IF Len(handled') # Len(handled) + 1 THEN <<>>
  ELSE LET h == handled'[Len(handled')]
       IN IF h.path = "controller" THEN Controller(h.type, h.detail.name, h.detail.arg)
          ELSE IF subsClosed THEN <<>>
          ELSE IF h.path = "dom" THEN onDomEvt([type |-> h.type, detail |-> h.detail])
          ELSE onPostMessageEvt(h.data).out

\* C33: on each channel the emissions come in the order in which their
\* signals arrived, each within the handling of its own signal: a step adds
\* to a channel, after what the channel has emitted, the emissions of the
\* signal the step handles, no more and no fewer, whichever path the signals
\* before it came by
C33_EmissionsFollowSignalOrder ==
  [][\A ch \in Channels \ {"onReady$"} :
       OnChannel(out', ch) = OnChannel(out, ch) \o OnChannel(Due, ch)]_vars

(* ---------------------- further properties of the calls ---------------- *)

\* C34: ngOnDestroy leaves the client binding as it is.  The step that
\* destroys the service changes neither the memoized promise, nor its state,
\* nor the load listener, nor the calls that wait; from then on the memoized
\* promise stays, a resolution that is pending is completed by the load
\* event, and every call served uses the binding
C34_TeardownKeepsBinding ==
  /\ [][(~subsClosed /\ subsClosed') =>
          UNCHANGED <<clientPromise, promises, loadListeners, noopCount, waiting, jobs>>]_vars
  /\ [][(subsClosed /\ clientPromise # NoPromise) =>
          /\ clientPromise' = clientPromise
          /\ (Binding # NoInstance => Binding' = Binding)
          /\ (~loadFired /\ loadFired' => Binding' # NoInstance)
          /\ (Serves => served'[Len(served')].client = Binding)]_vars

\* the service was destroyed while the resolution was pending: the call made
\* before the load event and the call made after it were served by the same
\* instance
C34_Witness ==
  /\ subsClosed
  /\ loadListeners # <<>> /\ loadFired
  /\ Len(served) = 2
  /\ served[1].early /\ ~served[2].early
  /\ served[1].client = served[2].client
  /\ served[2].client = Binding

\* C35: the NoopClient's callback, sendCommand, sendRemoteCommand, track,
\* timeEvent, newEventSession and finish, called with whatever arguments,
\* return undefined without an error and do nothing: the call that reaches
\* one of them posts no message, emits on no channel, reports no error and
\* changes nothing of the service or of the window
C35_FallbackCommandsDoNothing ==
  [][(Serves /\ last'.method \in Commands /\ last'.client.kind = "noop"
        /\ last'.invoked = 1) =>
       /\ last'.outcome = Value(Undefined)
       /\ last'.result = Returned
       /\ last'.unhandled = NoValue
       /\ UNCHANGED <<out, inbox, subscribers, zone, handled, msgErrored, table,
                      envVars, bridgeVars, resolverVars, waiting>>]_vars

\* callback('a1', 'a2', 'a3') reached the NoopClient's callback
C35_Witness ==
  /\ last.method = "callback"
  /\ last.client.kind = "noop"
  /\ last.invoked = 1
  /\ Len(args.given) = 3
  /\ out = <<>>

\* the command and telemetry methods that only hand their arguments on
Deferred == Commands \ {"newEventSession"}

\* C36: a call of sendCommand, sendRemoteCommand, track, timeEvent, finish
\* or callback issued while the resolution is pending is delivered to the
\* bound implementation exactly once, after the resolution has completed,
\* and the calls are delivered in the order in which they were issued: none
\* is dropped, none is delivered twice
C36_PendingCallsDeliveredOnceInOrder ==
  [][(Serves /\ served'[Len(served')].early /\ last'.method \in Deferred) =>
       /\ Binding' # NoInstance
       /\ last'.client = Binding'
       /\ last'.invoked = 1
       /\ served'[Len(served')].seq = Len(served')
       /\ Len(jobs') = Len(jobs) - 1]_vars

(* -------------------- properties of the configuration relay ------------ *)

\* C37: in a frame as in a top-level window, whose parent is the window
\* itself, the bridge posts at most one message to window.parent for one
\* message it handles, it posts none for a message whose isOpener is not
\* true, and what it posts carries isOpener false: a message that comes back
\* to the window is not relayed again, so the relay ends
C37_RelayEnds ==
  /\ [][inbox # <<>> =>
          /\ Len(OnChannel(Fresh, "window.parent")) <= 1
          /\ (Head(inbox).data.body.isOpener # "true" \/ Head(inbox).origin = "self")
               => OnChannel(Fresh, "window.parent") = <<>>]_vars
  /\ [](\A i \in DOMAIN out :
          out[i].ch = "window.parent" => out[i].data.body.isOpener = "false")
  /\ [](\A i \in DOMAIN inbox :
          inbox[i].origin = "self" => inbox[i].data.body.isOpener = "false")

\* in a top-level window the popup's message was relayed once, came back to
\* the window and was handled without another relay: nothing is left to do
C37_Witness ==
  /\ ~hasParent
  /\ Len(handled) = 2
  /\ handled[1].origin = "popup" /\ handled[1].data.body.isOpener = "true"
  /\ handled[2].origin = "self" /\ handled[2].live
  /\ Len(OnChannel(out, "window.parent")) = 1
  /\ Len(OnChannel(out, "onPostMessage$")) = 2
  /\ inbox = <<>>

(* ------------------------- properties of onReady$ ---------------------- *)

\* what the inbound event h yields when the Controller object is installed
\* and the listener of its pipeline is attached
Through(h) ==
  IF h.path = "controller" THEN Controller(h.type, h.detail.name, h.detail.arg)
  ELSE IF h.path = "dom" THEN onDomEvt([type |-> h.type, detail |-> h.detail])
  ELSE onPostMessageEvt(h.data).out

\* C38: ready is true only while the bridge is wired: a host signal that
\* arrives in a state where ready is true, as a DOM event, as a Controller
\* call or as a message, reaches its channel
C38_ReadyMeansWired ==
  [][(ready /\ Len(handled') = Len(handled) + 1) =>
       \A ch \in Channels \ {"onReady$"} :
         OnChannel(Fresh, ch) = OnChannel(Through(handled'[Len(handled')]), ch)]_vars

(* ------------------------- properties of callback ---------------------- *)

\* C39: callback called with more than five arguments never invokes the
\* bound implementation's callback; the call returns to its caller like any
\* other and no error is reported
C39_LongCallbackIsDropped ==
  [][(Serves /\ last'.method = "callback" /\ Len(args'.given) > 5) =>
       /\ last'.invoked = 0
       /\ last'.outcome = NoOutcome
       /\ args'.passed = <<>>
       /\ last'.result = Returned
       /\ last'.unhandled = NoValue]_vars

\* callback was called with six arguments on a live host and was served
C39_Witness ==
  /\ last.method = "callback"
  /\ last.client.kind = "live"
  /\ Len(args.given) = 6
  /\ last.invoked = 0

(* -------------------- further properties of DataTableRef --------------- *)

\* C40: each rowUpdated, rowCreated or rowDeleted event the library instance
\* raises before dispose yields exactly one emission, published inside
\* zone.run, of the change it carries, on the stream of its name, and none on
\* the other two streams
C40_RowEventFeedsItsStream ==
  [][(~table.disposed /\ Len(table'.events) = Len(table.events) + 1) =>
       LET ev == table'.events[Len(table'.events)]
       IN table'.emitted
            = Append(table.emitted,
                     [stream |-> ev.event, change |-> ev.change, run |-> TRUE])]_vars

\* the library raised the three events before dispose: each stream emitted
\* once, in the order of the events
C40_Witness ==
  /\ ~table.disposed
  /\ Len(table.events) = 3
  /\ Len(table.emitted) = 3
  /\ table.events[1].event = "rowDeleted" /\ table.emitted[1].stream = "rowDeleted"
  /\ table.events[2].event = "rowUpdated" /\ table.emitted[2].stream = "rowUpdated"
  /\ table.events[3].event = "rowCreated" /\ table.emitted[3].stream = "rowCreated"
  /\ table.emitted[1].change # table.emitted[2].change

=============================================================================
